---- MODULE Spec2Model ----
(***************************************************************************)
(* Model of homework.py: the fitness-tracker module that turns sensor      *)
(* packages into workout summaries.                                        *)
(*                                                                         *)
(* Numbers.  Python floats are modelled as exact rationals [n, d] kept in  *)
(* lowest terms with d > 0; the decimal literals of the source (0.65,      *)
(* 1.38, 0.035, 0.029, 1.1) are the rationals they denote.  Binary         *)
(* rounding of the last bit of a double is therefore not modelled; the     *)
(* three-decimal rendering of the reporter is.                             *)
(*                                                                         *)
(* Text.  The literals of the source are Cyrillic; string literals here    *)
(* are their Latin transliteration, character class for character class.   *)
(***************************************************************************)
EXTENDS Integers, Sequences, FiniteSets, TLC

VARIABLES packages, i, pc, training, info, stdout, exc

vars == <<packages, i, pc, training, info, stdout, exc>>

(***************************************************************************)
(* Bounds of the model.                                                    *)
(***************************************************************************)
MaxBatch == 3
MaxFields == 6

(***************************************************************************)
(* Exact rational arithmetic standing for Python's float arithmetic.       *)
(***************************************************************************)
Abs(x) == IF x < 0 THEN -x ELSE x

RECURSIVE GCD(_, _)
GCD(a, b) == IF b = 0 THEN a ELSE GCD(b, a % b)

Norm(n, d) ==
    LET s == IF d < 0 THEN -1 ELSE 1
        g == GCD(Abs(n), Abs(d))
    IN  [n |-> (s * n) \div g, d |-> (s * d) \div g]

Rat(n, d) == Norm(n, d)
RInt(k) == [n |-> k, d |-> 1]
\* sums over the least common denominator, products cancelled crosswise, so
\* that no intermediate value is larger than the result requires
RAdd(a, b) ==
    LET g == GCD(a.d, b.d)
    IN  Norm(a.n * (b.d \div g) + b.n * (a.d \div g), (a.d \div g) * b.d)
RSub(a, b) == RAdd(a, [n |-> -b.n, d |-> b.d])
RMul(a, b) ==
    LET g1 == GCD(Abs(a.n), b.d)
        g2 == GCD(Abs(b.n), a.d)
    IN  Norm((a.n \div g1) * (b.n \div g2), (a.d \div g2) * (b.d \div g1))
\* a / b, defined for b # 0 (Python raises ZeroDivisionError otherwise)
RDiv(a, b) ==
    RMul(a, IF b.n < 0 THEN [n |-> -b.d, d |-> -b.n]
            ELSE [n |-> b.d, d |-> b.n])
\* a // b on floats: the floor of the quotient, as a float
RFloorDiv(a, b) == LET q == RDiv(a, b) IN RInt(q.n \div q.d)
IsZero(a) == a.n = 0

(***************************************************************************)
(* Class constants.                                                        *)
(***************************************************************************)
M_IN_KM == 1000
MIN_IN_HOUR == 60
RUN_COEFF_1 == 18
RUN_COEFF_2 == 20
SWM_COEFF_2 == 2
COEFF_WALK_1 == Rat(35, 1000)
COEFF_WALK_2 == Rat(29, 1000)
SWM_COEFF_1 == Rat(11, 10)

\* LEN_STEP as attribute lookup resolves it: Swimming overrides Training's
LEN_STEP(cls) == IF cls = "Swimming" THEN Rat(138, 100) ELSE Rat(65, 100)

(***************************************************************************)
(* Training and its subclasses.  An instance is a record holding the       *)
(* class name and the attributes its __init__ sets.                        *)
(***************************************************************************)
None == [cls |-> "None"]

Training_init(cls, action, duration, weight) ==
    [cls |-> cls, action |-> action, duration |-> duration, weight |-> weight]

SportsWalking_init(action, duration, weight, height) ==
    [cls |-> "SportsWalking", action |-> action, duration |-> duration,
     weight |-> weight, height |-> height]

\* (variant: the two pool attributes assigned crosswise)
Swimming_init_swapped(action, duration, weight, length_pool, count_pool) ==
    [cls |-> "Swimming", action |-> action, duration |-> duration,
     weight |-> weight, length_pool |-> count_pool, count_pool |-> length_pool]
Swimming_init(action, duration, weight, length_pool, count_pool) ==
    [cls |-> "Swimming", action |-> action, duration |-> duration,
     weight |-> weight, length_pool |-> length_pool, count_pool |-> count_pool]

\* (variant: the division by M_IN_KM left out)
get_distance_no_km(self) == RMul(self.action, LEN_STEP(self.cls))
get_distance(self) ==
    RDiv(RMul(self.action, LEN_STEP(self.cls)), RInt(M_IN_KM))

Training_get_mean_speed(self) == RDiv(get_distance(self), self.duration)

Swimming_get_mean_speed(self) ==
    RDiv(RDiv(RMul(self.length_pool, self.count_pool), RInt(M_IN_KM)),
         self.duration)

\* (variant: Swimming without its override)
get_mean_speed_not_overridden(self) == Training_get_mean_speed(self)
get_mean_speed(self) ==
    IF self.cls = "Swimming" THEN Swimming_get_mean_speed(self)
    ELSE Training_get_mean_speed(self)

\* (variant: the duration in minutes left out)
Running_get_spent_calories_no_minutes(self) ==
    LET cal == RSub(RMul(RInt(RUN_COEFF_1), get_mean_speed(self)),
                    RInt(RUN_COEFF_2))
    IN  RDiv(RMul(cal, self.weight), RInt(M_IN_KM))
Running_get_spent_calories(self) ==
    LET cal == RSub(RMul(RInt(RUN_COEFF_1), get_mean_speed(self)),
                    RInt(RUN_COEFF_2))
        duration_and_min_in_hour == RMul(self.duration, RInt(MIN_IN_HOUR))
    IN  RMul(RDiv(RMul(cal, self.weight), RInt(M_IN_KM)),
             duration_and_min_in_hour)

\* (variant: / in place of //)
SportsWalking_get_spent_calories_true_div(self) ==
    LET SPEED == get_mean_speed(self)
        DURATION_IN_MIN == RMul(self.duration, RInt(MIN_IN_HOUR))
        COEFF_AND_WEIGHT_1 == RMul(COEFF_WALK_1, self.weight)
        COEFF_AND_WEIGHT_2 == RDiv(RMul(SPEED, SPEED), self.height)
        COEFF_WALK_2_AND_WEIGHT == RMul(COEFF_WALK_2, self.weight)
        MEAN_SPEED_AND_WEIGHT ==
            RMul(COEFF_AND_WEIGHT_2, COEFF_WALK_2_AND_WEIGHT)
    IN  RMul(RAdd(COEFF_AND_WEIGHT_1, MEAN_SPEED_AND_WEIGHT), DURATION_IN_MIN)
SportsWalking_get_spent_calories(self) ==
    LET SPEED == get_mean_speed(self)
        DURATION_IN_MIN == RMul(self.duration, RInt(MIN_IN_HOUR))
        COEFF_AND_WEIGHT_1 == RMul(COEFF_WALK_1, self.weight)
        COEFF_AND_WEIGHT_2 == RFloorDiv(RMul(SPEED, SPEED), self.height)
        COEFF_WALK_2_AND_WEIGHT == RMul(COEFF_WALK_2, self.weight)
        MEAN_SPEED_AND_WEIGHT ==
            RMul(COEFF_AND_WEIGHT_2, COEFF_WALK_2_AND_WEIGHT)
    IN  RMul(RAdd(COEFF_AND_WEIGHT_1, MEAN_SPEED_AND_WEIGHT), DURATION_IN_MIN)

Swimming_get_spent_calories(self) ==
    LET calories_1 == RAdd(get_mean_speed(self), SWM_COEFF_1)
    IN  RMul(RMul(calories_1, RInt(SWM_COEFF_2)), self.weight)

get_spent_calories(self) ==
    CASE self.cls = "Running" -> Running_get_spent_calories(self)
      [] self.cls = "SportsWalking" -> SportsWalking_get_spent_calories(self)
      [] self.cls = "Swimming" -> Swimming_get_spent_calories(self)

\* The divisions of show_training_info that raise ZeroDivisionError
RaisesZeroDivision(self) ==
    \/ IsZero(self.duration)
    \/ self.cls = "SportsWalking" /\ IsZero(self.height)

\* (variant: speed and calories passed to InfoMessage in each other's place)
show_training_info_swapped(self) ==
    [training_type |-> self.cls,
     duration |-> self.duration,
     distance |-> get_distance(self),
     speed |-> get_spent_calories(self),
     calories |-> get_mean_speed(self)]
show_training_info(self) ==
    [training_type |-> self.cls,
     duration |-> self.duration,
     distance |-> get_distance(self),
     speed |-> get_mean_speed(self),
     calories |-> get_spent_calories(self)]

(***************************************************************************)
(* InfoMessage.get_message: the template with every number as '.3f'.       *)
(***************************************************************************)
Pad3(k) ==
    IF k < 10 THEN "00" \o ToString(k)
    ELSE IF k < 100 THEN "0" \o ToString(k)
    ELSE ToString(k)

\* format(x, '.3f'): fixed point, three decimals, ties to even
Fmt3(x) ==
    LET whole == Abs(x.n) \div x.d
        a == (Abs(x.n) % x.d) * 1000
        q == whole * 1000 + (a \div x.d)
        r == a % x.d
        t == IF 2 * r > x.d \/ (2 * r = x.d /\ q % 2 = 1) THEN q + 1 ELSE q
    IN  (IF x.n < 0 THEN "-" ELSE "")
        \o ToString(t \div 1000) \o "." \o Pad3(t % 1000)

get_message(self) ==
    "Tip trenirovki: " \o self.training_type
    \o "; Dlitelnost: " \o Fmt3(self.duration)
    \o " ch.; Distanciya: " \o Fmt3(self.distance)
    \o " km; Sr. skorost: " \o Fmt3(self.speed)
    \o " km/ch; Potracheno kkal: " \o Fmt3(self.calories) \o "."

(***************************************************************************)
(* read_package.                                                           *)
(***************************************************************************)
NoExc == [kind |-> "", msg |-> ""]

KnownCodes == {"SWM", "RUN", "WLK"}

training_title(workout_type) ==
    CASE workout_type = "SWM" -> "Swimming"
      [] workout_type = "RUN" -> "Running"
      [] workout_type = "WLK" -> "SportsWalking"

\* number of positional parameters of the class's __init__, self apart
Arity(cls) ==
    CASE cls = "Running" -> 3
      [] cls = "SportsWalking" -> 4
      [] cls = "Swimming" -> 5

\* cls(*data): a TypeError unless data fills the parameters exactly (the
\* text of that TypeError is the interpreter's and is not modelled)
\* (variant: surplus fields ignored)
ConstructAnyLength(cls, data) ==
    IF Len(data) < Arity(cls)
    THEN [exc |-> [kind |-> "TypeError", msg |-> ""], training |-> None]
    ELSE [exc |-> NoExc,
          training |->
            CASE cls = "Running" ->
                   Training_init(cls, data[1], data[2], data[3])
              [] cls = "SportsWalking" ->
                   SportsWalking_init(data[1], data[2], data[3], data[4])
              [] cls = "Swimming" ->
                   Swimming_init(data[1], data[2], data[3], data[4], data[5])]
Construct(cls, data) ==
    IF Len(data) # Arity(cls)
    THEN [exc |-> [kind |-> "TypeError", msg |-> ""], training |-> None]
    ELSE [exc |-> NoExc,
          training |->
            CASE cls = "Running" ->
                   Training_init(cls, data[1], data[2], data[3])
              [] cls = "SportsWalking" ->
                   SportsWalking_init(data[1], data[2], data[3], data[4])
              [] cls = "Swimming" ->
                   Swimming_init(data[1], data[2], data[3], data[4], data[5])]

\* the text of the NotImplementedError read_package raises
\* (variant: the code appended to the text)
UnsupportedMessageNaming(workout_type) ==
    "Dannyj vid trenirovki otsutstvuet: " \o workout_type
UnsupportedMessage(workout_type) == "Dannyj vid trenirovki otsutstvuet"

\* (variant: an unknown code falls back to Running)
read_package_falls_back(workout_type, data) ==
    Construct(IF workout_type \in KnownCodes
              THEN training_title(workout_type) ELSE "Running", data)
read_package(workout_type, data) ==
    IF workout_type \notin KnownCodes
    THEN [exc |-> [kind |-> "NotImplementedError",
                   msg |-> UnsupportedMessage(workout_type)],
          training |-> None]
    ELSE Construct(training_title(workout_type), data)

(***************************************************************************)
(* The packages the driver is run on.                                      *)
(***************************************************************************)
Ints(s) == [k \in 1..Len(s) |-> RInt(s[k])]

Package(workout_type, data) == [workout_type |-> workout_type, data |-> data]

\* the list `packages` of the __main__ block
MainPackages ==
    << Package("SWM", Ints(<<720, 1, 80, 25, 40>>)),
       Package("RUN", Ints(<<15000, 1, 75>>)),
       Package("WLK", Ints(<<9000, 1, 75, 180>>)) >>

\* packages the batches of several records are drawn from
BatchPackages ==
    { MainPackages[1], MainPackages[2], MainPackages[3],
      Package("SWM", Ints(<<1000, 1, 80, 25, 40>>)),
      Package("WLK", <<RInt(9000), Rat(1, 2), RInt(75), RInt(2)>>),
      Package("RUN", Ints(<<15000, 1>>)),
      Package("WLK", Ints(<<9000, 1, 75, 180, 1>>)),
      Package("RUN", Ints(<<15000, 0, 75>>)),
      Package("XYZ", Ints(<<720, 1, 80, 25, 40>>)),
      Package("FLY", Ints(<<15000, 1, 75>>)) }

RECURSIVE Batches(_)
Batches(n) ==
    IF n = 0 THEN {<<>>}
    ELSE LET shorter == Batches(n - 1)
         IN  shorter \cup
             {Append(b, p) : b \in {s \in shorter : Len(s) = n - 1},
                             p \in BatchPackages}

\* values a sensor field at position k is drawn from
FieldValues(k) ==
    CASE k = 1 -> {RInt(0), RInt(720), RInt(9000), RInt(15000)}
      [] k = 2 -> {RInt(0), Rat(1, 2), RInt(1), RInt(2)}
      [] k = 3 -> {RInt(75), RInt(80)}
      [] k = 4 -> {RInt(0), RInt(2), RInt(25), RInt(180)}
      [] k = 5 -> {RInt(0), RInt(40)}
      [] OTHER -> {RInt(7)}

RECURSIVE DataLists(_)
DataLists(n) ==
    IF n = 0 THEN {<<>>}
    ELSE {Append(d, v) : d \in DataLists(n - 1), v \in FieldValues(n)}

Codes == KnownCodes \cup {"XYZ", "FLY", "run"}

SinglePackages ==
    {Package(c, d) : c \in Codes,
                     d \in UNION {DataLists(n) : n \in 0..MaxFields}}

(***************************************************************************)
(* The driver: the loop of the __main__ block and main().                  *)
(*   pc = "read"    about to evaluate read_package for packages[i]         *)
(*   pc = "main"    training is bound, about to call main(training)        *)
(*   pc = "done"    the loop is exhausted                                  *)
(*   pc = "aborted" an exception left the loop                             *)
(***************************************************************************)
Init ==
    /\ packages \in {MainPackages} \cup Batches(MaxBatch)
                    \cup {<<p>> : p \in SinglePackages}
    /\ i = 1
    /\ pc = "read"
    /\ training = None
    /\ info = None
    /\ stdout = <<>>
    /\ exc = NoExc

\* An exception raised in the loop body: nothing catches it
\* (variant: caught per record, the loop goes on)
UncaughtSkipsRecord(e) == [pc |-> "read", i |-> i + 1, exc |-> NoExc]
Uncaught(e) == [pc |-> "aborted", i |-> i, exc |-> e]

Dispatch == read_package(packages[i].workout_type, packages[i].data)

ReadPackageReturns ==
    /\ pc = "read"
    /\ i <= Len(packages)
    /\ Dispatch.exc = NoExc
    /\ training' = Dispatch.training
    /\ pc' = "main"
    /\ UNCHANGED <<packages, i, info, stdout, exc>>

ReadPackageRaises ==
    /\ pc = "read"
    /\ i <= Len(packages)
    /\ Dispatch.exc # NoExc
    /\ LET u == Uncaught(Dispatch.exc)
       IN  pc' = u.pc /\ i' = u.i /\ exc' = u.exc
    /\ UNCHANGED <<packages, training, info, stdout>>

MainPrints ==
    /\ pc = "main"
    /\ ~RaisesZeroDivision(training)
    /\ info' = show_training_info(training)
    /\ stdout' = Append(stdout, get_message(info'))
    /\ i' = i + 1
    /\ pc' = "read"
    /\ UNCHANGED <<packages, training, exc>>

MainRaises ==
    /\ pc = "main"
    /\ RaisesZeroDivision(training)
    /\ LET u == Uncaught([kind |-> "ZeroDivisionError", msg |-> ""])
       IN  pc' = u.pc /\ i' = u.i /\ exc' = u.exc
    /\ UNCHANGED <<packages, training, info, stdout>>

LoopExit ==
    /\ pc = "read"
    /\ i > Len(packages)
    /\ pc' = "done"
    /\ UNCHANGED <<packages, i, training, info, stdout, exc>>

Next ==
    \/ ReadPackageReturns
    \/ ReadPackageRaises
    \/ MainPrints
    \/ MainRaises
    \/ LoopExit

Spec == Init /\ [][Next]_vars

(***************************************************************************)
(* Properties of the dispatcher, read_package.                             *)
(***************************************************************************)
Contains(s, c) ==
    \E k \in 1..(Len(s) - Len(c) + 1) : SubSeq(s, k, k + Len(c) - 1) = c

\* the record i stands at, when there is one
AtRecord == i <= Len(packages)
Code == packages[i].workout_type
Data == packages[i].data

\* what the name `training` was bound to before record i was dispatched
BoundBefore ==
    IF i = 1 THEN None
    ELSE read_package(packages[i - 1].workout_type,
                      packages[i - 1].data).training

\* C1: a package whose code is none of "SWM", "RUN", "WLK" is never turned
\* into a record: once dispatched, the run has stopped with the
\* NotImplementedError (never a TypeError), `training` is still what it was
\* bound to before, and this holds for every field list.
UnknownCodeIsUnsupported ==
    (AtRecord /\ Code \notin {"SWM", "RUN", "WLK"}) =>
        \/ pc = "read" /\ exc = NoExc
        \/ /\ pc = "aborted"
           /\ exc.kind = "NotImplementedError"
           /\ training = BoundBefore

\* an unknown code with a field list too short for any class, dispatched
UnknownCodeShortListRejected ==
    /\ AtRecord
    /\ Code = "FLY"
    /\ Len(Data) = 2
    /\ pc = "aborted"
    /\ exc.kind = "NotImplementedError"

UnsupportedText == "Dannyj vid trenirovki otsutstvuet"

\* C2 as stated: the message of the NotImplementedError contains the code
\* that was passed.
UnsupportedMessageNamesCode ==
    (pc = "aborted" /\ exc.kind = "NotImplementedError") =>
        Contains(exc.msg, Code)

\* C2 amended: the message of the NotImplementedError is one fixed text,
\* the same for every unknown code, and the code passed is not part of it.
UnsupportedMessageIsFixed ==
    (pc = "aborted" /\ exc.kind = "NotImplementedError") =>
        /\ exc.msg = UnsupportedText
        /\ ~Contains(exc.msg, Code)

UnsupportedRaisedForXYZ ==
    /\ pc = "aborted"
    /\ exc.kind = "NotImplementedError"
    /\ Code = "XYZ"
    /\ exc.msg # ""

ExpectedArity ==
    CASE Code = "RUN" -> 3
      [] Code = "WLK" -> 4
      [] Code = "SWM" -> 5

\* C3: a known code with a field list that is not exactly as long as the
\* class's constructor takes (3 for RUN, 4 for WLK, 5 for SWM), shorter or
\* longer, ends in a TypeError, which is not the NotImplementedError of an
\* unknown code, and binds no record.
WrongFieldCountIsTypeError ==
    (AtRecord /\ Code \in {"SWM", "RUN", "WLK"}
              /\ Len(Data) # ExpectedArity) =>
        \/ pc = "read" /\ exc = NoExc
        \/ /\ pc = "aborted"
           /\ exc.kind = "TypeError"
           /\ exc.kind # "NotImplementedError"
           /\ training = BoundBefore

\* a running package with one field too many, dispatched
TooManyFieldsRejected ==
    /\ AtRecord
    /\ Code = "RUN"
    /\ Len(Data) = 4
    /\ pc = "aborted"
    /\ exc.kind = "TypeError"

\* C4: a known code with a field list of the right length yields a record
\* of the matching class whose attributes are the fields in order: action,
\* duration, weight, then height (walking) or pool length and pool count
\* (swimming); and such a package never ends in a dispatch error.
FieldsTakenPositionally ==
    (AtRecord /\ Code \in {"SWM", "RUN", "WLK"}
              /\ Len(Data) = ExpectedArity) =>
        /\ exc.kind \notin {"TypeError", "NotImplementedError"}
        /\ pc # "read" =>
            /\ training.action = Data[1]
            /\ training.duration = Data[2]
            /\ training.weight = Data[3]
            /\ Code = "RUN" => /\ training.cls = "Running"
                               /\ DOMAIN training =
                                    {"cls", "action", "duration", "weight"}
            /\ Code = "WLK" => /\ training.cls = "SportsWalking"
                               /\ training.height = Data[4]
            /\ Code = "SWM" => /\ training.cls = "Swimming"
                               /\ training.length_pool = Data[4]
                               /\ training.count_pool = Data[5]

\* a swimming package with pool length and pool count that differ, bound
SwimmingRecordBuilt ==
    /\ AtRecord
    /\ Code = "SWM"
    /\ pc = "main"
    /\ training.cls = "Swimming"
    /\ training.length_pool # training.count_pool
    /\ training.action # training.weight

(***************************************************************************)
(* Properties of the formulas.  They are stated on the InfoMessage that    *)
(* main() built for the record bound to `training`, in integers, by        *)
(* cross-multiplying the fractions.                                        *)
(***************************************************************************)
\* main() has returned for the record bound to `training`: info is its
\* InfoMessage and the last line of stdout is its report
Summarised == pc \in {"read", "done"} /\ i > 1

LastLine == stdout[Len(stdout)]

\* C5: for a Running or SportsWalking record with positive duration,
\* distance = action * 0.65 / 1000 and mean speed = distance / duration,
\* so that mean speed = action * 0.65 / 1000 / duration, whatever the
\* weight and the height.
StepSpeedIsDistanceOverDuration ==
    (Summarised /\ training.cls \in {"Running", "SportsWalking"}) =>
        LET a == training.action
            t == training.duration
            dist == info.distance
            v == info.speed
        IN  /\ t.n > 0
            /\ dist.n * 100 * 1000 * a.d = a.n * 65 * dist.d
            /\ v.n * t.n * dist.d = dist.n * v.d * t.d
            /\ v.n * 100 * 1000 * t.n * a.d = a.n * 65 * t.d * v.d

\* a walking record over half an hour, summarised
WalkingHalfHourSummarised ==
    /\ Summarised
    /\ training.cls = "SportsWalking"
    /\ training.duration = [n |-> 1, d |-> 2]
    /\ training.action.n > 0
    /\ info.speed # info.distance

\* C6: for a Swimming record with positive duration, mean speed =
\* length_pool * count_pool / 1000 / duration, in which neither action nor
\* the stroke length occurs, while distance = action * 1.38 / 1000: an
\* earlier swimming record with the same pool and duration was reported
\* with the same speed, though with another distance when its action differs.
SwimmingSpeedFromPool ==
    (Summarised /\ training.cls = "Swimming") =>
        LET t == training.duration
            lp == training.length_pool
            cp == training.count_pool
            a == training.action
            v == info.speed
            dist == info.distance
        IN  /\ t.n > 0
            /\ v.n * 1000 * t.n * lp.d * cp.d = lp.n * cp.n * t.d * v.d
            /\ dist.n * 100 * 1000 * a.d = a.n * 138 * dist.d
            /\ \A k \in 1..(i - 2) :
                 LET p == packages[k]
                 IN  (/\ p.workout_type = "SWM"
                      /\ p.data[2] = t
                      /\ p.data[4] = lp
                      /\ p.data[5] = cp) =>
                         /\ Contains(stdout[k],
                                "Sr. skorost: " \o Fmt3(v) \o " km/ch")
                         /\ p.data[1] # a => stdout[k] # LastLine

\* two swimming records of one pool and duration, with different actions
\* and swum distance unlike the pool distance, both summarised
TwoSwimsOfOnePoolSummarised ==
    /\ Summarised
    /\ i = 3
    /\ training.cls = "Swimming"
    /\ packages[1].workout_type = "SWM"
    /\ packages[1].data[1] # training.action
    /\ packages[1].data[2] = training.duration
    /\ packages[1].data[4] = training.length_pool
    /\ packages[1].data[5] = training.count_pool
    /\ info.speed # info.distance

\* floor(speed^2 / height) of the record bound to `training`
SpeedTerm ==
    LET v == info.speed
        h == training.height
    IN  (v.n * v.n * h.d) \div (v.d * v.d * h.n)

\* C7: for a SportsWalking record, calories = (0.035 * weight +
\* floor(speed^2 / height) * 0.029 * weight) * duration * 60, the floor
\* taken of the quotient alone; so when speed^2 < height calories =
\* 0.035 * weight * duration * 60, and the record (9000, 1, 75, 180) is
\* reported with distance 5.850, speed 5.850 and calories 157.500.
WalkingCaloriesFloorQuotient ==
    (Summarised /\ training.cls = "SportsWalking") =>
        LET v == info.speed
            h == training.height
            w == training.weight
            t == training.duration
            c == info.calories
        IN  /\ c = Norm(w.n * t.n * 60 * (35 + 29 * SpeedTerm),
                        1000 * w.d * t.d)
            /\ (v.n * v.n * h.d < h.n * v.d * v.d) =>
                 c = Norm(35 * w.n * t.n * 60, 1000 * w.d * t.d)
            /\ (/\ training.action = RInt(9000) /\ t = RInt(1)
                /\ w = RInt(75) /\ h = RInt(180)) =>
                 LastLine = "Tip trenirovki: SportsWalking; "
                            \o "Dlitelnost: 1.000 ch.; "
                            \o "Distanciya: 5.850 km; "
                            \o "Sr. skorost: 5.850 km/ch; "
                            \o "Potracheno kkal: 157.500."

\* the record (9000, 1, 75, 180) reported, then a walking record summarised
\* whose speed^2 / height is above 1 and not whole
WalkingFloorCuts ==
    /\ Summarised
    /\ i = 3
    /\ packages[1] = MainPackages[3]
    /\ Contains(stdout[1], "Potracheno kkal: 157.500.")
    /\ training.cls = "SportsWalking"
    /\ SpeedTerm > 0
    /\ LET v == info.speed
           h == training.height
       IN  (v.n * v.n * h.d) % (v.d * v.d * h.n) # 0

\* C8: for a Running record with positive duration and weight, calories =
\* (18 * speed - 20) * weight / 1000 * (duration * 60), speed being the
\* record's mean speed.
RunningCaloriesFormula ==
    (Summarised /\ training.cls = "Running") =>
        LET v == info.speed
            w == training.weight
            t == training.duration
            c == info.calories
        IN  /\ t.n > 0 /\ w.n > 0
            /\ c = Norm((18 * v.n - 20 * v.d) * w.n * t.n * 60,
                        v.d * w.d * 1000 * t.d)

\* a running record over two hours, summarised
RunningTwoHoursSummarised ==
    /\ Summarised
    /\ training.cls = "Running"
    /\ training.duration = RInt(2)
    /\ training.action.n > 0

IsSampleRun ==
    /\ Summarised
    /\ training.cls = "Running"
    /\ training.action = RInt(15000)
    /\ training.duration = RInt(1)
    /\ training.weight = RInt(75)

\* C9 as stated: the running record (15000, 1, 75) is reported with distance
\* 9.750, mean speed 9.750 and calories 645.750.
SampleRunReports645 ==
    IsSampleRun =>
        LastLine = "Tip trenirovki: Running; Dlitelnost: 1.000 ch.; "
                   \o "Distanciya: 9.750 km; Sr. skorost: 9.750 km/ch; "
                   \o "Potracheno kkal: 645.750."

\* C9 amended: the running record (15000, 1, 75) is reported with distance
\* 9.750, mean speed 9.750 and calories 699.750.
SampleRunReports699 ==
    IsSampleRun =>
        LastLine = "Tip trenirovki: Running; Dlitelnost: 1.000 ch.; "
                   \o "Distanciya: 9.750 km; Sr. skorost: 9.750 km/ch; "
                   \o "Potracheno kkal: 699.750."

\* the running record (15000, 1, 75) summarised as second of the main batch
SampleRunPrinted ==
    /\ IsSampleRun
    /\ packages = MainPackages
    /\ Len(stdout) = 2

(***************************************************************************)
(* Properties of the driver.                                               *)
(***************************************************************************)
\* the line main() prints for package p, when p yields one
Report(p) ==
    get_message(show_training_info(
        read_package(p.workout_type, p.data).training))

\* package p does not get through the loop body
Fails(p) ==
    LET r == read_package(p.workout_type, p.data)
    IN  r.exc # NoExc \/ RaisesZeroDivision(r.training)

InOrder ==
    /\ Len(stdout) = i - 1
    /\ \A k \in 1..Len(stdout) : stdout[k] = Report(packages[k])
    /\ \A k \in 1..Len(packages) : Fails(packages[k]) => i <= k
    /\ pc = "main" => training = Dispatch.training
    /\ pc = "aborted" => AtRecord /\ Fails(packages[i]) /\ exc # NoExc
    /\ pc = "done" => i = Len(packages) + 1

OneLinePerStep ==
    /\ pc = "aborted" => UNCHANGED vars
    /\ stdout' # stdout =>
         /\ pc = "main"
         /\ stdout' = Append(stdout, Report(packages[i]))
         /\ i' = i + 1
    /\ i' # i => stdout' # stdout
    /\ packages' = packages

\* C10: the records are handled strictly in input order, record i
\* dispatched, summarised and printed before record i + 1 is touched, so
\* the k-th line printed is the report of the k-th record; when record i
\* fails the run stops there: the lines of records 1..i-1 stay, and no line
\* is printed for record i or any later one.
BatchInOrderFailFast == []InOrder /\ [][OneLinePerStep]_vars

\* a batch whose second record fails dispatch after the first was printed
AbortedAfterFirstLine ==
    /\ pc = "aborted"
    /\ i = 2
    /\ Len(packages) = 2
    /\ Len(stdout) = 1
    /\ exc.kind \in {"TypeError", "NotImplementedError"}

====
